---------------------------- MODULE Spec2Model ----------------------------
(***************************************************************************)
(* Model of the CSV enrichment pipeline of src/server.js: the handler of   *)
(* POST /api/upload (row selection, ceiling, batching, concurrent batch    *)
(* inference, merge, serialization) and processBatchWithAI.                *)
(*                                                                         *)
(* A JavaScript string is a sequence of one-character strings.  The value  *)
(* `undefined` (a missing cell, a missing field, an array hole) is the     *)
(* one-element sequence UNDEFINED, which no string of the model equals.    *)
(* Array indices of the source are 0-based; sequences here are 1-based, so *)
(* JavaScript's row[k] is Cell(row, k).                                    *)
(***************************************************************************)
EXTENDS Integers, Sequences, FiniteSets, TLC

(* ------------------------------ bounds -------------------------------- *)

\* Largest number of data rows (rows after the header) of an uploaded table.
MaxRows == 4

(* ------------------------- program constants -------------------------- *)

\* src/server.js:135 sets 100 and :136 sets 1000; the model keeps their
\* roles (ceiling > batch size, ceiling not a multiple of it) at a scale
\* the tables of the model exceed.
BATCH_SIZE == 2
MAX_PROCESS_LIMIT == 3

(* ------------------------------ strings ------------------------------- *)

UNDEFINED == <<"undefined">>
EMPTY == <<>>
Whitespace == {" "}

RECURSIVE trimStart(_)
trimStart(s) ==
    IF s # <<>> /\ Head(s) \in Whitespace THEN trimStart(Tail(s)) ELSE s

RECURSIVE trimEnd(_)
trimEnd(s) ==
    IF s # <<>> /\ s[Len(s)] \in Whitespace
    THEN trimEnd(SubSeq(s, 1, Len(s) - 1))
    ELSE s

\* String.prototype.trim
trim(s) == trimEnd(trimStart(s))

\* JavaScript truthiness of a cell: undefined and "" are falsy.
Truthy(v) == v # UNDEFINED /\ v # EMPTY

\* row[k] of the source (k counted from 0); undefined past the end.
Cell(row, k) == IF k < Len(row) THEN row[k + 1] ELSE UNDEFINED

\* row[k] = v of the source: an assignment past the end grows the array and
\* leaves holes, which read as undefined.
SetCell(row, k, v) ==
    IF k < Len(row)
    THEN [row EXCEPT ![k + 1] = v]
    ELSE [i \in 1..(k + 1) |->
            IF i <= Len(row) THEN row[i]
            ELSE IF i = k + 1 THEN v ELSE UNDEFINED]

\* row[k] ? row[k].trim() : ""          (lines 314-317)
TrimmedOrEmpty(row, k) == IF Truthy(Cell(row, k)) THEN trim(Cell(row, k)) ELSE EMPTY

\* (row[k] || "").trim()                (lines 391-395)
OrEmptyTrimmed(row, k) == trim(IF Truthy(Cell(row, k)) THEN Cell(row, k) ELSE EMPTY)

(* ------------------------- inferred records --------------------------- *)

API_ERROR == <<"A", "P", "I", " ", "E", "r", "r", "o", "r">>
AI_ERROR == <<"A", "I", " ", "E", "r", "r", "o", "r">>

\* line 260
errorResult ==
    [country_of_origin |-> AI_ERROR, artist |-> AI_ERROR, release_title |-> AI_ERROR]

\* lines 270-274
apiErrorResult ==
    [country_of_origin |-> API_ERROR, artist |-> API_ERROR, release_title |-> API_ERROR]

\* The object literal {} of line 360: every field reads as undefined.
EmptyObject ==
    [country_of_origin |-> UNDEFINED, artist |-> UNDEFINED, release_title |-> UNDEFINED]

\* JSON null as an element of the service's array.
JsonNullElement == [isNull |-> TRUE]

(* ------------------- responses of the inference service --------------- *)

\* The value JSON.parse gives for the service's text.
JArray(items) == [type |-> "array", items |-> items, entries |-> <<>>]
JObject(entries) == [type |-> "object", items |-> <<>>, entries |-> entries]
JNull == [type |-> "null", items |-> <<>>, entries |-> <<>>]
JString == [type |-> "string", items |-> <<>>, entries |-> <<>>]

\* One outcome of openai.chat.completions.create (lines 218-232): the call
\* throws, or it gives a text that JSON.parse rejects or turns into a value.
Throws == [threw |-> TRUE, parses |-> FALSE, parsed |-> JNull]
Unparseable == [threw |-> FALSE, parses |-> FALSE, parsed |-> JNull]
Text(json) == [threw |-> FALSE, parses |-> TRUE, parsed |-> json]

RecA ==
    [country_of_origin |-> <<"U", "K">>, artist |-> <<"a">>, release_title |-> <<"r">>]
\* a record without the artist field
RecB ==
    [country_of_origin |-> <<"J", "P">>, artist |-> UNDEFINED, release_title |-> <<"s">>]
\* a record whose release_title is the empty string
RecC ==
    [country_of_origin |-> <<"U", "S">>, artist |-> <<"c">>, release_title |-> EMPTY]

\* The outcomes the model draws from: for a batch of one or two titles they
\* cover a throw, an unparseable text, every unexpected shape, a top-level
\* and a wrapped array, and arrays that are empty, shorter than, as long as
\* and longer than the batch, one of them with a null element.
Outcomes ==
    { Throws,
      Unparseable,
      Text(JNull),
      Text(JObject(<<>>)),
      Text(JObject(<<[key |-> "error", value |-> JString]>>)),
      Text(JObject(<<[key |-> "", value |-> JArray(<<RecA, RecB>>)]>>)),
      Text(JObject(<<[key |-> "results", value |-> JArray(<<>>)]>>)),
      Text(JArray(<<RecA>>)),
      Text(JObject(<<[key |-> "results", value |-> JArray(<<RecA, RecB>>)],
                     [key |-> "note", value |-> JString]>>)),
      Text(JObject(<<[key |-> "results",
                      value |-> JArray(<<JsonNullElement, RecC, RecB>>)]>>)) }

(* --------------------------- uploaded tables -------------------------- *)

\* Row 0.  Its title cell is non-empty and its target cells are empty, so
\* only the loop bound of the filter keeps it out of the selection.
HeaderRow == <<<<"n">>, <<"t">>, <<"x">>, EMPTY, EMPTY, EMPTY>>

\* complete row: nothing to fill
RowComplete == <<<<"1">>, <<"p">>, <<"x">>, <<"c">>, <<"d">>, <<"e">>>>
\* whitespace-only title, empty targets: not selected
RowNoTitle == <<<<"2">>, <<" ">>, <<"x">>, EMPTY, EMPTY, EMPTY>>
\* padded title; country present, artist whitespace-only, release missing
RowPartial == <<<<"3">>, <<" ", "q">>, <<"x">>, <<"c">>, <<" ">>>>
\* short row: only the title
RowShort == <<<<"4">>, <<"u">>>>

RowPool == {RowComplete, RowNoTitle, RowPartial, RowShort}

\* What Papa.parse can give (line 295-298): no row at all, or a header
\* followed by at most MaxRows data rows.
Tables ==
    {<<>>} \cup
    { <<HeaderRow>> \o t : t \in UNION { [1..n -> RowPool] : n \in 0..MaxRows } }

(* ------------------------------ selection ----------------------------- *)

Min(a, b) == IF a < b THEN a ELSE b

\* Array.prototype.slice(start, end), 0-based, end exclusive
Slice(s, start, end) == SubSeq(s, start + 1, Min(end, Len(s)))

\* The condition of line 320 for one row.
NeedsProcessing(row) ==
    LET title == TrimmedOrEmpty(row, 1)
        colD == TrimmedOrEmpty(row, 3)
        colE == TrimmedOrEmpty(row, 4)
        colF == TrimmedOrEmpty(row, 5)
    IN  title # EMPTY /\ (colD = EMPTY \/ colE = EMPTY \/ colF = EMPTY)

\* The loop of lines 312-323 from index i on.
RECURSIVE FilterFrom(_, _)
FilterFrom(data, i) ==
    IF i >= Len(data) THEN <<>>
    ELSE (IF NeedsProcessing(data[i + 1])
          THEN <<[originalIndex |-> i, title |-> TrimmedOrEmpty(data[i + 1], 1)]>>
          ELSE <<>>) \o FilterFrom(data, i + 1)

\* Variant of FilterRows whose loop starts at the header row.
FilterRowsFromHeader(data) == FilterFrom(data, 0)

\* Variant of FilterRows that records the row number counted from 1
\* (originalIndex: i + 1).
FilterRowsOneBased(data) ==
    [j \in 1..Len(FilterFrom(data, 1)) |->
        [originalIndex |-> FilterFrom(data, 1)[j].originalIndex + 1,
         title |-> FilterFrom(data, 1)[j].title]]

\* lines 311-323: the header (i = 0) is never looked at
FilterRows(data) == FilterFrom(data, 1)

\* Variant of ApplyLimit that keeps the last MAX_PROCESS_LIMIT items.
ApplyLimitKeepsLast(items) ==
    IF Len(items) > MAX_PROCESS_LIMIT
    THEN Slice(items, Len(items) - MAX_PROCESS_LIMIT, Len(items))
    ELSE items

\* lines 329-333
ApplyLimit(items) ==
    IF Len(items) > MAX_PROCESS_LIMIT THEN Slice(items, 0, MAX_PROCESS_LIMIT) ELSE items

\* The loop of lines 343-345 from offset i on.
RECURSIVE BatchesFrom(_, _)
BatchesFrom(items, i) ==
    IF i >= Len(items) THEN <<>>
    ELSE <<Slice(items, i, i + BATCH_SIZE)>> \o BatchesFrom(items, i + BATCH_SIZE)

\* Variant of MakeBatches whose loop stops before a shorter last batch.
MakeBatchesFullOnly(items) ==
    BatchesFrom(Slice(items, 0, (Len(items) \div BATCH_SIZE) * BATCH_SIZE), 0)

\* Variant of MakeBatches whose slices are one item too long
\* (slice(i, i + BATCH_SIZE + 1)).
MakeBatchesWide(items) ==
    [b \in 1..((Len(items) + BATCH_SIZE - 1) \div BATCH_SIZE) |->
        Slice(items, (b - 1) * BATCH_SIZE, (b - 1) * BATCH_SIZE + BATCH_SIZE + 1)]

\* lines 342-345
MakeBatches(items) == BatchesFrom(items, 0)

\* line 353
BatchTitles(batch) == [j \in 1..Len(batch) |-> batch[j].title]

(* -------------------------- processBatchWithAI ------------------------ *)

\* lines 234-254: the records the response is taken to hold
NormalizeResponse(outcome) ==
    IF ~outcome.parses THEN <<>>
    ELSE LET parsedResponse == outcome.parsed IN
         IF parsedResponse.type = "array" THEN parsedResponse.items
         ELSE IF parsedResponse.type = "object"
         THEN LET entries == parsedResponse.entries IN
              IF /\ entries # <<>>
                 /\ entries[1].key # ""
                 /\ entries[1].value.type = "array"
              THEN entries[1].value.items
              ELSE <<>>
         ELSE <<>>

\* Variant of PadShort whose loop stops one record early.
PadShortOneFewer(aiData, n) ==
    IF Len(aiData) < n
    THEN aiData \o [i \in 1..(n - 1 - Len(aiData)) |-> errorResult]
    ELSE aiData

\* Variant of PadShort that puts the missing records in front (unshift).
PadShortAtFront(aiData, n) ==
    IF Len(aiData) < n
    THEN [i \in 1..(n - Len(aiData)) |-> errorResult] \o aiData
    ELSE aiData

\* lines 257-264: pad the tail with errorResult up to n records
PadShort(aiData, n) ==
    IF Len(aiData) < n
    THEN aiData \o [i \in 1..(n - Len(aiData)) |-> errorResult]
    ELSE aiData

\* Variant of ApiErrorResults that gives an empty array on an API error.
ApiErrorResultsEmpty(n) == <<>>

\* lines 267-275: the catch of the external call
ApiErrorResults(n) == [i \in 1..n |-> apiErrorResult]

\* Variant of processBatchWithAI whose catch rethrows the API error.
processBatchWithAIRethrows(titles, outcome) ==
    IF outcome.threw
    THEN [raised |-> TRUE, aiData |-> <<>>]
    ELSE [raised |-> FALSE, aiData |-> PadShort(NormalizeResponse(outcome), Len(titles))]

\* lines 178-276.  raised: whether the function throws to its caller; every
\* path of the source returns.
processBatchWithAI(titles, outcome) ==
    IF outcome.threw
    THEN [raised |-> FALSE, aiData |-> ApiErrorResults(Len(titles))]
    ELSE [raised |-> FALSE, aiData |-> PadShort(NormalizeResponse(outcome), Len(titles))]

(* ------------------------------ ResultMap ----------------------------- *)

\* Map.prototype.set on a Map kept as its entries in insertion order.
MapSet(m, k, v) ==
    IF \E i \in 1..Len(m) : m[i].key = k
    THEN [i \in 1..Len(m) |-> IF m[i].key = k THEN [key |-> k, value |-> v] ELSE m[i]]
    ELSE Append(m, [key |-> k, value |-> v])

MapKeys(m) == { m[i].key : i \in 1..Len(m) }
MapHas(m, k) == k \in MapKeys(m)
MapGet(m, k) == (CHOOSE e \in { m[i] : i \in 1..Len(m) } : e.key = k).value

\* aiResults[idx] || {}   (line 360)
ResultOrEmpty(aiResults, idx) ==
    IF idx < Len(aiResults) /\ aiResults[idx + 1] # JsonNullElement
    THEN aiResults[idx + 1]
    ELSE EmptyObject

\* batch.forEach of lines 359-361 from position idx on
RECURSIVE WriteFrom(_, _, _, _)
WriteFrom(m, batch, aiResults, idx) ==
    IF idx >= Len(batch) THEN m
    ELSE WriteFrom(MapSet(m, batch[idx + 1].originalIndex, ResultOrEmpty(aiResults, idx)),
                   batch, aiResults, idx + 1)

\* Variant of WriteResults that keys an entry by the item's position in its
\* batch (idx) and not by its originalIndex.
RECURSIVE WriteFromByPosition(_, _, _, _)
WriteFromByPosition(m, batch, aiResults, idx) ==
    IF idx >= Len(batch) THEN m
    ELSE WriteFromByPosition(MapSet(m, idx, ResultOrEmpty(aiResults, idx)),
                             batch, aiResults, idx + 1)

WriteResultsByPosition(m, batch, aiResults) == WriteFromByPosition(m, batch, aiResults, 0)

\* Variant of WriteResults that walks the records instead of the batch
\* (aiResults.forEach), keying record idx by the first item's originalIndex
\* plus idx.
RECURSIVE WriteAllFrom(_, _, _, _)
WriteAllFrom(m, batch, aiResults, idx) ==
    IF idx >= Len(aiResults) THEN m
    ELSE WriteAllFrom(MapSet(m, batch[1].originalIndex + idx, ResultOrEmpty(aiResults, idx)),
                      batch, aiResults, idx + 1)

WriteResultsAllRecords(m, batch, aiResults) == WriteAllFrom(m, batch, aiResults, 0)

\* lines 359-361
WriteResults(m, batch, aiResults) == WriteFrom(m, batch, aiResults, 0)

(* -------------------------------- merge ------------------------------- *)

\* Variant of MergeCell that writes the inferred field without looking at
\* the cell.
MergeCellOverwrite(row, k, aiField) == SetCell(row, k, aiField)

\* Variant of MergeCell that appends the inferred field to the cell (+=)
\* without looking at what the cell holds.
MergeCellAppend(row, k, aiField) ==
    SetCell(row, k,
            (IF Truthy(Cell(row, k)) THEN Cell(row, k) ELSE EMPTY)
            \o (IF aiField = UNDEFINED THEN EMPTY ELSE aiField))

\* One of the assignments of lines 391-395.
MergeCell(row, k, aiField) ==
    SetCell(row, k, IF OrEmptyTrimmed(row, k) = EMPTY THEN aiField ELSE Cell(row, k))

\* Variant of MergeRow that writes one column to the left (cells 2, 3, 4).
MergeRowShifted(row, aiRow) ==
    MergeCell(MergeCell(MergeCell(row, 2, aiRow.country_of_origin),
                        3, aiRow.artist),
              4, aiRow.release_title)

\* lines 391-395 for one row
MergeRow(row, aiRow) ==
    MergeCell(MergeCell(MergeCell(row, 3, aiRow.country_of_origin),
                        4, aiRow.artist),
              5, aiRow.release_title)

\* if (fullCsvData[originalIndex])   (line 389)
RowExists(data, originalIndex) == originalIndex >= 0 /\ originalIndex < Len(data)

\* allResults.forEach of lines 388-402 from entry i on; st holds the table
\* and mergeCount.
RECURSIVE MergeFrom(_, _, _)
MergeFrom(st, m, i) ==
    IF i > Len(m) THEN st
    ELSE LET e == m[i] IN
         MergeFrom(IF RowExists(st.data, e.key)
                   THEN [data |-> [st.data EXCEPT ![e.key + 1] = MergeRow(@, e.value)],
                         mergeCount |-> st.mergeCount + 1]
                   ELSE st,
                   m, i + 1)

\* lines 387-402
MergeAll(data, m) == MergeFrom([data |-> data, mergeCount |-> 0], m, 1)

(* ----------------------------- serialization -------------------------- *)

\* Papa.unparse (line 407): one record per row of the array, in array
\* order; a hole or undefined is written as an empty field.
UnparseRow(row) == [k \in 1..Len(row) |-> IF row[k] = UNDEFINED THEN EMPTY ELSE row[k]]
Unparse(data) == [i \in 1..Len(data) |-> UnparseRow(data[i])]

(* ------------------------------ requests ------------------------------ *)

\* An upload: without a file, with a file Papa.parse throws on, or with a
\* file that parses to a table.
Requests ==
    {[file |-> FALSE, parseThrows |-> FALSE, data |-> <<>>],
     [file |-> TRUE, parseThrows |-> TRUE, data |-> <<>>]}
    \cup { [file |-> TRUE, parseThrows |-> FALSE, data |-> t] : t \in Tables }

\* The bodies of the responses (lines 284, 301, 306, 338, 415).
ErrNoFile == [status |-> 400, kind |-> "error", error |-> "no file provided", csv |-> <<>>]
ErrEmptyCsv == [status |-> 400, kind |-> "error", error |-> "csv empty or unreadable", csv |-> <<>>]
ErrParse == [status |-> 500, kind |-> "error", error |-> "csv parse failed", csv |-> <<>>]
ErrNoRows == [status |-> 400, kind |-> "error", error |-> "no rows to complete", csv |-> <<>>]
CsvResponse(rows) == [status |-> 200, kind |-> "csv", error |-> "", csv |-> rows]

(* ------------------------------- state -------------------------------- *)

VARIABLES
    pc,                   \* position of the upload handler
    request,              \* the request being handled
    fullCsvData,          \* the parsed table, merged in place
    parsedInput,          \* history: the table as parsed (line 298)
    selected,             \* history: itemsToProcess as built by the filter (line 323)
    itemsToProcess,
    totalItemsToProcess,
    batches,
    batchStatus,          \* per batch: position of its async callback
    callOutcome,          \* per batch: how its external call ended
    aiResults,            \* per batch: what processBatchWithAI gave (line 356)
    allResults,           \* the Map of line 350, entries in insertion order
    completedBatchCount,
    processedCount,       \* value logged by the batch that finished last (line 372)
    apiCalls,             \* number of calls of openai.chat.completions.create
    mergeCount,
    responses             \* what was sent on res, in order

vars ==
    <<pc, request, fullCsvData, parsedInput, selected, itemsToProcess,
      totalItemsToProcess, batches, batchStatus, callOutcome, aiResults,
      allResults, completedBatchCount, processedCount, apiCalls, mergeCount,
      responses>>

NoRequest == [file |-> FALSE, parseThrows |-> FALSE, data |-> <<>>]
NoResult == [raised |-> FALSE, aiData |-> <<>>]

Init ==
    /\ pc = "idle"
    /\ request = NoRequest
    /\ fullCsvData = <<>>
    /\ parsedInput = <<>>
    /\ selected = <<>>
    /\ itemsToProcess = <<>>
    /\ totalItemsToProcess = 0
    /\ batches = <<>>
    /\ batchStatus = <<>>
    /\ callOutcome = <<>>
    /\ aiResults = <<>>
    /\ allResults = <<>>
    /\ completedBatchCount = 0
    /\ processedCount = 0
    /\ apiCalls = 0
    /\ mergeCount = 0
    /\ responses = <<>>

(* ------------------------------ actions ------------------------------- *)

\* lines 279-307: the request arrives; file check and CSV parse
Upload ==
    /\ pc = "idle"
    /\ \E req \in Requests :
        /\ request' = req
        /\ IF ~req.file
           THEN /\ responses' = Append(responses, ErrNoFile)
                /\ pc' = "done"
                /\ UNCHANGED <<fullCsvData, parsedInput>>
           ELSE IF req.parseThrows
           THEN /\ responses' = Append(responses, ErrParse)
                /\ pc' = "done"
                /\ UNCHANGED <<fullCsvData, parsedInput>>
           ELSE /\ fullCsvData' = req.data
                /\ parsedInput' = req.data
                /\ IF Len(req.data) = 0
                   THEN /\ responses' = Append(responses, ErrEmptyCsv)
                        /\ pc' = "done"
                   ELSE /\ UNCHANGED responses
                        /\ pc' = "filter"
    /\ UNCHANGED <<selected, itemsToProcess, totalItemsToProcess, batches,
                   batchStatus, callOutcome, aiResults, allResults,
                   completedBatchCount, processedCount, apiCalls, mergeCount>>

\* lines 309-326: select the rows to complete
Filter ==
    /\ pc = "filter"
    /\ itemsToProcess' = FilterRows(fullCsvData)
    /\ selected' = itemsToProcess'
    /\ totalItemsToProcess' = Len(itemsToProcess')
    /\ pc' = "limit"
    /\ UNCHANGED <<request, fullCsvData, parsedInput, batches, batchStatus,
                   callOutcome, aiResults, allResults, completedBatchCount,
                   processedCount, apiCalls, mergeCount, responses>>

\* Variant of Limit without the zero-selection check of lines 335-339.
LimitWithoutZeroCheck ==
    /\ pc = "limit"
    /\ itemsToProcess' = ApplyLimit(itemsToProcess)
    /\ totalItemsToProcess' = Len(itemsToProcess')
    /\ pc' = "batch"
    /\ UNCHANGED <<request, fullCsvData, parsedInput, selected, batches,
                   batchStatus, callOutcome, aiResults, allResults,
                   completedBatchCount, processedCount, apiCalls, mergeCount,
                   responses>>

\* Variant of Limit that answers a selection above the ceiling with an
\* error instead of truncating it.
LimitRejectsExcess ==
    /\ pc = "limit"
    /\ UNCHANGED <<itemsToProcess, totalItemsToProcess>>
    /\ IF totalItemsToProcess = 0 \/ totalItemsToProcess > MAX_PROCESS_LIMIT
       THEN /\ responses' = Append(responses, ErrNoRows)
            /\ pc' = "done"
       ELSE /\ UNCHANGED responses
            /\ pc' = "batch"
    /\ UNCHANGED <<request, fullCsvData, parsedInput, selected, batches,
                   batchStatus, callOutcome, aiResults, allResults,
                   completedBatchCount, processedCount, apiCalls, mergeCount>>

\* lines 328-339: ceiling, then the zero-selection check
Limit ==
    /\ pc = "limit"
    /\ itemsToProcess' = ApplyLimit(itemsToProcess)
    /\ totalItemsToProcess' = Len(itemsToProcess')
    /\ IF totalItemsToProcess' = 0
       THEN /\ responses' = Append(responses, ErrNoRows)
            /\ pc' = "done"
       ELSE /\ UNCHANGED responses
            /\ pc' = "batch"
    /\ UNCHANGED <<request, fullCsvData, parsedInput, selected, batches,
                   batchStatus, callOutcome, aiResults, allResults,
                   completedBatchCount, processedCount, apiCalls, mergeCount>>

\* lines 341-346: cut the selection into batches
Batch ==
    /\ pc = "batch"
    /\ batches' = MakeBatches(itemsToProcess)
    /\ pc' = "dispatch"
    /\ UNCHANGED <<request, fullCsvData, parsedInput, selected, itemsToProcess,
                   totalItemsToProcess, batchStatus, callOutcome, aiResults,
                   allResults, completedBatchCount, processedCount, apiCalls,
                   mergeCount, responses>>

\* lines 348-356 and 178-229: batches.map starts every callback; each runs
\* processBatchWithAI up to its await, which issues the external call.
Dispatch ==
    /\ pc = "dispatch"
    /\ completedBatchCount' = 0
    /\ allResults' = <<>>
    /\ batchStatus' = [b \in 1..Len(batches) |-> "awaiting"]
    /\ callOutcome' = [b \in 1..Len(batches) |-> Unparseable]
    /\ aiResults' = [b \in 1..Len(batches) |-> NoResult]
    /\ apiCalls' = apiCalls + Len(batches)
    /\ pc' = "join"
    /\ UNCHANGED <<request, fullCsvData, parsedInput, selected, itemsToProcess,
                   totalItemsToProcess, batches, processedCount, mergeCount,
                   responses>>

\* The callbacks run only while the handler is suspended at the await of
\* line 376 or after it has returned.
HandlerYielded == pc \in {"join", "done"}

\* Variant of CallSettles that issues the call a second time when the
\* first one throws (one retry per request).
CallSettlesWithRetry(b) ==
    /\ HandlerYielded
    /\ b \in 1..Len(batches)
    /\ batchStatus[b] = "awaiting"
    /\ \E outcome \in Outcomes :
        IF outcome.threw /\ apiCalls = Len(batches)
        THEN /\ apiCalls' = apiCalls + 1
             /\ UNCHANGED <<callOutcome, aiResults, batchStatus>>
        ELSE /\ callOutcome' = [callOutcome EXCEPT ![b] = outcome]
             /\ aiResults' = [aiResults EXCEPT ![b] = processBatchWithAI(BatchTitles(batches[b]), outcome)]
             /\ batchStatus' = [batchStatus EXCEPT ![b] = "returned"]
             /\ UNCHANGED apiCalls
    /\ UNCHANGED <<pc, request, fullCsvData, parsedInput, selected, itemsToProcess,
                   totalItemsToProcess, batches, allResults, completedBatchCount,
                   processedCount, mergeCount, responses>>

\* lines 217-275: the external call of batch b settles and
\* processBatchWithAI runs to its return
CallSettles(b) ==
    /\ HandlerYielded
    /\ b \in 1..Len(batches)
    /\ batchStatus[b] = "awaiting"
    /\ \E outcome \in Outcomes :
        /\ callOutcome' = [callOutcome EXCEPT ![b] = outcome]
        /\ aiResults' = [aiResults EXCEPT ![b] = processBatchWithAI(BatchTitles(batches[b]), outcome)]
    /\ batchStatus' = [batchStatus EXCEPT ![b] = "returned"]
    /\ UNCHANGED <<pc, request, fullCsvData, parsedInput, selected, itemsToProcess,
                   totalItemsToProcess, batches, allResults, completedBatchCount,
                   processedCount, apiCalls, mergeCount, responses>>

\* lines 364-370: the progress figure of a finished batch
ProgressCount(completed) ==
    IF completed = Len(batches) THEN totalItemsToProcess ELSE completed * BATCH_SIZE

\* Variant of BatchResume whose callback adds one to the count it read
\* before its await, when no batch had finished (a lost update).
BatchResumeStaleCount(b) ==
    /\ HandlerYielded
    /\ b \in 1..Len(batches)
    /\ batchStatus[b] = "returned"
    /\ IF aiResults[b].raised
       THEN /\ batchStatus' = [batchStatus EXCEPT ![b] = "rejected"]
            /\ UNCHANGED <<allResults, completedBatchCount, processedCount>>
       ELSE /\ allResults' = WriteResults(allResults, batches[b], aiResults[b].aiData)
            /\ completedBatchCount' = 0 + 1
            /\ processedCount' = ProgressCount(completedBatchCount')
            /\ batchStatus' = [batchStatus EXCEPT ![b] = "fulfilled"]
    /\ UNCHANGED <<pc, request, fullCsvData, parsedInput, selected, itemsToProcess,
                   totalItemsToProcess, batches, callOutcome, aiResults, apiCalls,
                   mergeCount, responses>>

\* Variant of BatchResume in which the callbacks are chained: the callback
\* of batch b resumes only after those of the batches before it.
BatchResumeInOrder(b) ==
    /\ HandlerYielded
    /\ b \in 1..Len(batches)
    /\ batchStatus[b] = "returned"
    /\ \A c \in 1..(b - 1) : batchStatus[c] \in {"fulfilled", "rejected"}
    /\ IF aiResults[b].raised
       THEN /\ batchStatus' = [batchStatus EXCEPT ![b] = "rejected"]
            /\ UNCHANGED <<allResults, completedBatchCount, processedCount>>
       ELSE /\ allResults' = WriteResults(allResults, batches[b], aiResults[b].aiData)
            /\ completedBatchCount' = completedBatchCount + 1
            /\ processedCount' = ProgressCount(completedBatchCount')
            /\ batchStatus' = [batchStatus EXCEPT ![b] = "fulfilled"]
    /\ UNCHANGED <<pc, request, fullCsvData, parsedInput, selected, itemsToProcess,
                   totalItemsToProcess, batches, callOutcome, aiResults, apiCalls,
                   mergeCount, responses>>

\* lines 356-373: the callback of batch b resumes after its await; a throw
\* of processBatchWithAI would reject the callback's promise.
BatchResume(b) ==
    /\ HandlerYielded
    /\ b \in 1..Len(batches)
    /\ batchStatus[b] = "returned"
    /\ IF aiResults[b].raised
       THEN /\ batchStatus' = [batchStatus EXCEPT ![b] = "rejected"]
            /\ UNCHANGED <<allResults, completedBatchCount, processedCount>>
       ELSE /\ allResults' = WriteResults(allResults, batches[b], aiResults[b].aiData)
            /\ completedBatchCount' = completedBatchCount + 1
            /\ processedCount' = ProgressCount(completedBatchCount')
            /\ batchStatus' = [batchStatus EXCEPT ![b] = "fulfilled"]
    /\ UNCHANGED <<pc, request, fullCsvData, parsedInput, selected, itemsToProcess,
                   totalItemsToProcess, batches, callOutcome, aiResults, apiCalls,
                   mergeCount, responses>>

\* Variant of AllSettled that is satisfied by the first callback to finish
\* (Promise.any in place of Promise.all).
AnySettled ==
    \E b \in 1..Len(batches) : batchStatus[b] \in {"fulfilled", "rejected"}

\* Promise.all (line 376): fulfilled once every callback is, rejected as
\* soon as one is.
AllSettled ==
    \/ \A b \in 1..Len(batches) : batchStatus[b] = "fulfilled"
    \/ \E b \in 1..Len(batches) : batchStatus[b] = "rejected"

\* lines 375-382: the await of Promise.all ends; a rejection is caught and
\* logged
Join ==
    /\ pc = "join"
    /\ AllSettled
    /\ pc' = "merge"
    /\ UNCHANGED <<request, fullCsvData, parsedInput, selected, itemsToProcess,
                   totalItemsToProcess, batches, batchStatus, callOutcome, aiResults,
                   allResults, completedBatchCount, processedCount, apiCalls,
                   mergeCount, responses>>

\* lines 384-415: merge into the table, unparse, send
MergeAndRespond ==
    /\ pc = "merge"
    /\ LET st == MergeAll(fullCsvData, allResults) IN
        /\ fullCsvData' = st.data
        /\ mergeCount' = st.mergeCount
        /\ responses' = Append(responses, CsvResponse(Unparse(st.data)))
    /\ pc' = "done"
    /\ UNCHANGED <<request, parsedInput, selected, itemsToProcess,
                   totalItemsToProcess, batches, batchStatus, callOutcome, aiResults,
                   allResults, completedBatchCount, processedCount, apiCalls>>

\* Batches of the largest table of the model.
BatchIds == 1..((MAX_PROCESS_LIMIT + BATCH_SIZE - 1) \div BATCH_SIZE)

Next ==
    \/ Upload
    \/ Filter
    \/ Limit
    \/ Batch
    \/ Dispatch
    \/ \E b \in BatchIds : CallSettles(b)
    \/ \E b \in BatchIds : BatchResume(b)
    \/ Join
    \/ MergeAndRespond

Spec == Init /\ [][Next]_vars

\* The synchronous code of lines 384-415 runs to its end: the handler does
\* not stay at the merge for ever.  MergeAndRespond is enabled exactly when
\* pc = "merge" and is the only step that leaves it, so this is weak
\* fairness of MergeAndRespond, written without its enabling condition.
MergeRuns == []<>(pc # "merge")

\* The event loop runs every continuation that is ready: the synchronous
\* steps of the handler, the callback of a batch whose call has returned,
\* and the handler after the await of line 376.  Nothing makes the
\* inference service answer, so CallSettles has no fairness.
FairSpec ==
    /\ Spec
    /\ WF_vars(Filter)
    /\ WF_vars(Limit)
    /\ WF_vars(Batch)
    /\ WF_vars(Dispatch)
    /\ \A b \in BatchIds : WF_vars(BatchResume(b))
    /\ WF_vars(Join)
    /\ MergeRuns

(* ----------------------- vocabulary of the claims ---------------------- *)

TargetColumns == {3, 4, 5}

\* Cell k of a parsed row is empty or missing after trimming.
Blank(row, k) == k >= Len(row) \/ trim(row[k + 1]) = EMPTY

\* The row qualifies for enrichment.
Eligible(row) == ~Blank(row, 1) /\ \E k \in TargetColumns : Blank(row, k)

RECURSIVE Flatten(_)
Flatten(ss) == IF ss = <<>> THEN <<>> ELSE Head(ss) \o Flatten(Tail(ss))

\* The external call of batch b has returned or thrown.
Settled(b) == b \in DOMAIN batchStatus /\ batchStatus[b] # "awaiting"
\* The handler has merged and sent the CSV.
SentCsv == pc = "done" /\ Len(responses) = 1 /\ responses[1].kind = "csv"

\* The batch b and position j (from 1) of the item of table row i.
InBatch(i, b, j) ==
    /\ b \in 1..Len(batches)
    /\ j \in 1..Len(batches[b])
    /\ batches[b][j].originalIndex = i

(* -------------------------------- C1 ---------------------------------- *)

\* C1 as stated: whatever the external call gives (a throw, an unparseable
\* or unexpected payload, an empty, short, exact or longer array),
\* processBatchWithAI returns exactly as many records as the batch has
\* titles.
C1_ExactLength ==
    \A b \in 1..Len(batches) :
        Settled(b) => Len(aiResults[b].aiData) = Len(batches[b])

\* C1 as amended: processBatchWithAI returns at least as many records as
\* the batch has titles; exactly as many unless the service's array is
\* longer than the batch, and then it returns that array whole.
C1_AtLeastLength ==
    \A b \in 1..Len(batches) :
        Settled(b) =>
            LET n == Len(batches[b])
                got == aiResults[b].aiData
                o == callOutcome[b]
                long == ~o.threw /\ Len(NormalizeResponse(o)) > n
            IN  /\ ~aiResults[b].raised
                /\ Len(got) >= n
                /\ ~long => Len(got) = n
                /\ long => got = NormalizeResponse(o)

\* C1 witness: a call has returned an array longer than its batch, and
\* another batch got a payload that had to be padded.
C1_Witness ==
    /\ Len(batches) = 2
    /\ Settled(1) /\ Settled(2)
    /\ Len(aiResults[1].aiData) = Len(batches[1]) + 1
    /\ ~callOutcome[2].parses /\ ~callOutcome[2].threw

(* -------------------------------- C2 ---------------------------------- *)

\* C2: the selection built by the filter holds index i exactly when i >= 1,
\* the trimmed title cell of row i is non-empty and one of the cells 3, 4, 5
\* is empty or missing after trimming; the indices are strictly increasing.
C2_Selection ==
    pc = "limit" =>
        /\ \A i \in 0..Len(fullCsvData) :
            (\E j \in 1..Len(itemsToProcess) : itemsToProcess[j].originalIndex = i)
                <=> (i >= 1 /\ i < Len(fullCsvData) /\ Eligible(fullCsvData[i + 1]))
        /\ \A j \in 1..Len(itemsToProcess) :
            itemsToProcess[j].originalIndex \in 1..(Len(fullCsvData) - 1)
        /\ \A j, k \in 1..Len(itemsToProcess) :
            j < k => itemsToProcess[j].originalIndex < itemsToProcess[k].originalIndex

\* C2 witness: a table whose header would qualify, with selected rows and a
\* data row left out between them.
C2_Witness ==
    /\ pc = "limit"
    /\ Eligible(fullCsvData[1])
    /\ Len(itemsToProcess) = 2
    /\ itemsToProcess[1].originalIndex = 1
    /\ itemsToProcess[2].originalIndex = 3

(* -------------------------------- C3 ---------------------------------- *)

\* C3: after the merge, a target cell (3, 4, 5) that was non-empty after
\* trimming in the parsed input holds its input value, in the table and in
\* the CSV sent, whatever the inferred record and its sibling cells.
C3_PopulatedKept ==
    SentCsv =>
        \A i \in 1..Len(parsedInput) : \A k \in TargetColumns :
            ~Blank(parsedInput[i], k) =>
                /\ Cell(fullCsvData[i], k) = parsedInput[i][k + 1]
                /\ Cell(responses[1].csv[i], k) = parsedInput[i][k + 1]

\* C3 witness: a row kept its country while its artist cell was filled from
\* a record that carries another country.
C3_Witness ==
    /\ SentCsv
    /\ \E i \in 1..Len(parsedInput) :
        /\ ~Blank(parsedInput[i], 3) /\ Blank(parsedInput[i], 4)
        /\ MapHas(allResults, i - 1)
        /\ MapGet(allResults, i - 1) = RecA
        /\ Cell(fullCsvData[i], 4) = RecA.artist
        /\ Cell(fullCsvData[i], 3) # RecA.country_of_origin

(* -------------------------------- C4 ---------------------------------- *)

\* C4: when more rows are selected than MAX_PROCESS_LIMIT, exactly the
\* first MAX_PROCESS_LIMIT selected items go to inference and get a
\* ResultMap entry, the other selected rows are emitted unchanged, and the
\* output has as many rows as the parsed input.
C4_Ceiling ==
    Len(selected) > MAX_PROCESS_LIMIT =>
        LET first == SubSeq(selected, 1, MAX_PROCESS_LIMIT)
            firstKeys == { first[j].originalIndex : j \in 1..Len(first) }
        IN  /\ pc \in {"join", "merge"} \/ SentCsv =>
                /\ Flatten(batches) = first
                /\ apiCalls = Len(batches)
                /\ MapKeys(allResults) \subseteq firstKeys
            /\ pc = "merge" \/ SentCsv =>
                MapKeys(allResults) = firstKeys
            /\ SentCsv =>
                /\ Len(responses[1].csv) = Len(parsedInput)
                /\ \A j \in (MAX_PROCESS_LIMIT + 1)..Len(selected) :
                    responses[1].csv[selected[j].originalIndex + 1]
                        = parsedInput[selected[j].originalIndex + 1]

\* C4 witness: four rows were selected and the CSV was sent.
C4_Witness ==
    /\ SentCsv
    /\ Len(selected) = MAX_PROCESS_LIMIT + 1
    /\ Len(allResults) = MAX_PROCESS_LIMIT

(* -------------------------------- C5 ---------------------------------- *)

\* C5: the batches, concatenated in batch order, are the capped selection:
\* every selected item is in exactly one batch at one position, in
\* selection order.
C5_Partition ==
    pc \in {"dispatch", "join", "merge"} =>
        /\ Flatten(batches) = itemsToProcess
        /\ \A n \in 1..Len(itemsToProcess) :
            Cardinality({ <<b, j>> \in (1..Len(batches)) \X (1..BATCH_SIZE) :
                            /\ j <= Len(batches[b])
                            /\ batches[b][j] = itemsToProcess[n] }) = 1

\* C5 witness: a selection cut into a full batch and a shorter last one.
C5_Witness ==
    /\ pc = "dispatch"
    /\ Len(batches) = 2
    /\ Len(batches[1]) = BATCH_SIZE
    /\ Len(batches[2]) = 1

(* -------------------------------- C6 ---------------------------------- *)

\* C6: when the handler reaches the merge step, the keys of allResults are
\* exactly the originalIndex values of the capped selection, one entry
\* each, whatever the external calls gave and in whatever order the
\* batches finished.
C6_ResultMapComplete ==
    pc = "merge" \/ SentCsv =>
        /\ MapKeys(allResults)
            = { itemsToProcess[j].originalIndex : j \in 1..Len(itemsToProcess) }
        /\ Len(allResults) = Len(itemsToProcess)
        /\ \A x, y \in 1..Len(allResults) : allResults[x].key = allResults[y].key => x = y

\* C6 witness: the merge step is reached after the second batch finished
\* first, one call having thrown and the other given an unparseable text.
C6_Witness ==
    /\ pc = "merge"
    /\ Len(batches) = 2
    /\ callOutcome[1].threw
    /\ callOutcome[2] = Unparseable
    /\ allResults[1].key = batches[2][1].originalIndex

(* -------------------------------- C7 ---------------------------------- *)

SentinelRecord(text) ==
    [country_of_origin |-> text, artist |-> text, release_title |-> text]

Field(rec, k) ==
    IF k = 3 THEN rec.country_of_origin
    ELSE IF k = 4 THEN rec.artist ELSE rec.release_title

\* C7: when the external call of a batch throws, processBatchWithAI raises
\* nothing and returns |B| records that are all 'API Error'; after the merge
\* every originally-empty target cell of the rows of that batch holds
\* 'API Error', the rows of the other batches hold what their own batch
\* gave, and the rows of no batch are as parsed.
C7_ApiError ==
    /\ \A b \in 1..Len(batches) :
        Settled(b) /\ callOutcome[b].threw =>
            /\ ~aiResults[b].raised
            /\ aiResults[b].aiData
                = [j \in 1..Len(batches[b]) |-> SentinelRecord(API_ERROR)]
    /\ SentCsv =>
        \A i \in 1..Len(parsedInput) :
            IF \E b \in 1..Len(batches), j \in 1..BATCH_SIZE : InBatch(i - 1, b, j)
            THEN \A b \in 1..Len(batches), j \in 1..BATCH_SIZE : \A k \in TargetColumns :
                    InBatch(i - 1, b, j) =>
                        IF callOutcome[b].threw
                        THEN Blank(parsedInput[i], k)
                                => Cell(fullCsvData[i], k) = API_ERROR
                        ELSE Cell(fullCsvData[i], k)
                                = IF Blank(parsedInput[i], k)
                                  THEN Field(ResultOrEmpty(aiResults[b].aiData, j - 1), k)
                                  ELSE parsedInput[i][k + 1]
            ELSE fullCsvData[i] = parsedInput[i]

\* C7 witness: after the merge, the call of the first batch (two rows) had
\* thrown and the call of the second had returned a record.
C7_Witness ==
    /\ SentCsv
    /\ Len(batches) = 2
    /\ callOutcome[1].threw
    /\ ~callOutcome[2].threw
    /\ aiResults[2].aiData[1] = RecA
    /\ Cell(fullCsvData[batches[1][2].originalIndex + 1], 5) = API_ERROR
    /\ Cell(fullCsvData[batches[2][1].originalIndex + 1], 5) = RecA.release_title

(* -------------------------------- C8 ---------------------------------- *)

\* The response is a parse failure or has no array where one is expected.
UnexpectedShape(o) ==
    ~o.threw /\
    (\/ ~o.parses
     \/ o.parsed.type \notin {"array", "object"}
     \/ /\ o.parsed.type = "object"
        /\ \/ o.parsed.entries = <<>>
           \/ o.parsed.entries[1].value.type # "array")

\* C8: when the service gives k < |B| records, processBatchWithAI returns
\* them unchanged at positions 0..k-1 and the 'AI Error' record at every
\* position k..|B|-1 (all positions after a parse failure or an unexpected
\* shape), and item j of the batch gets record j in allResults.
C8_ShortPadded ==
    \A b \in 1..Len(batches) :
        Settled(b) /\ ~callOutcome[b].threw =>
            LET n == Len(batches[b])
                recs == NormalizeResponse(callOutcome[b])
                k == Len(recs)
                got == aiResults[b].aiData
                expected(j) == IF j <= k THEN recs[j] ELSE SentinelRecord(AI_ERROR)
            IN  /\ UnexpectedShape(callOutcome[b]) => k = 0
                /\ k < n =>
                    /\ Len(got) = n
                    /\ \A j \in 1..n : got[j] = expected(j)
                    /\ batchStatus[b] = "fulfilled" =>
                        \A j \in 1..n :
                            /\ MapHas(allResults, batches[b][j].originalIndex)
                            /\ MapGet(allResults, batches[b][j].originalIndex)
                                = IF expected(j) = JsonNullElement
                                  THEN EmptyObject ELSE expected(j)

\* C8 witness: a batch of two got one record, and its callback has written
\* the record and the sentinel.
C8_Witness ==
    \E b \in DOMAIN batchStatus :
        /\ Len(batches[b]) = 2
        /\ batchStatus[b] = "fulfilled"
        /\ ~callOutcome[b].threw
        /\ NormalizeResponse(callOutcome[b]) = <<RecA>>
        /\ MapGet(allResults, batches[b][1].originalIndex) = RecA
        /\ MapGet(allResults, batches[b][2].originalIndex) = SentinelRecord(AI_ERROR)

(* -------------------------------- C9 ---------------------------------- *)

Parsed == request.file /\ ~request.parseThrows
EmptyParse == Parsed /\ Len(request.data) = 0
NoneEligible ==
    /\ Parsed
    /\ Len(request.data) > 0
    /\ \A i \in 2..Len(request.data) : ~Eligible(request.data[i])

\* C9: when the parsed table is empty or no row qualifies (a header-only
\* table, a table of complete rows), the handler answers with an error, a
\* different one for each condition, sends no CSV, and has issued no call
\* to the inference service at any point.
C9_NothingToDo ==
    /\ ErrEmptyCsv.error # ErrNoRows.error
    /\ EmptyParse \/ NoneEligible =>
        /\ apiCalls = 0
        /\ \A r \in 1..Len(responses) : responses[r].kind = "error"
        /\ pc \notin {"batch", "dispatch", "join", "merge"}
        /\ pc = "done" =>
            responses = <<IF EmptyParse THEN ErrEmptyCsv ELSE ErrNoRows>>

\* C9 witness: a table of a header and three rows, none to complete, was
\* answered with the no-rows error.
C9_Witness ==
    /\ pc = "done"
    /\ Len(parsedInput) = 4
    /\ NoneEligible
    /\ responses = <<ErrNoRows>>

(* -------------------------------- C10 --------------------------------- *)

PassesInputChecks ==
    /\ Parsed
    /\ Len(request.data) > 0
    /\ \E i \in 2..Len(request.data) : Eligible(request.data[i])

\* A step the handler can take at the await of line 376 without a further
\* answer of the inference service.
AwaitStep == Join \/ \E b \in BatchIds : BatchResume(b)

\* C10: a request that passes the input checks (file present, non-empty
\* parse, a row selected) gets exactly one response, the CSV with status
\* 200, whatever the external calls gave; at its await it can only be held
\* up by a call that has not returned; an error response is sent only for a
\* missing file, a failed or empty parse, or an empty selection.
C10_OneCsvResponse ==
    /\ Len(responses) <= 1
    /\ (pc = "done") <=> (Len(responses) = 1)
    /\ PassesInputChecks =>
        /\ \A r \in 1..Len(responses) :
            responses[r].kind = "csv" /\ responses[r].status = 200
        /\ pc = "join" /\ (\A b \in DOMAIN batchStatus : Settled(b))
            => ENABLED AwaitStep
    /\ (\E r \in 1..Len(responses) : responses[r].kind = "error") =>
        ~PassesInputChecks

\* C10 witness: the CSV was sent although one call threw and the other gave
\* a payload of unexpected shape.
C10_Witness ==
    /\ SentCsv
    /\ PassesInputChecks
    /\ responses[1].status = 200
    /\ Len(batches) = 2
    /\ callOutcome[2].threw
    /\ UnexpectedShape(callOutcome[1])

(* -------------------------------- C11 --------------------------------- *)

\* C11: the merge is idempotent: merging the ResultMap a second time into
\* the merged table changes no cell of the table, nor of its CSV.
C11_MergeIdempotent ==
    SentCsv =>
        /\ MergeAll(fullCsvData, allResults).data = fullCsvData
        /\ Unparse(MergeAll(fullCsvData, allResults).data) = responses[1].csv

\* C11 witness: the first pass filled one blank cell with a value and left
\* another blank (the record has no artist), so that a second pass finds a
\* filled cell and a cell that is still blank.
C11_Witness ==
    /\ SentCsv
    /\ \E i \in 2..Len(parsedInput) :
        /\ Blank(parsedInput[i], 3) /\ Blank(parsedInput[i], 4)
        /\ Cell(fullCsvData[i], 3) = RecB.country_of_origin
        /\ Cell(fullCsvData[i], 4) = UNDEFINED

(* -------------------------------- C12 --------------------------------- *)

\* The number of cells of a row of the table.
Width(row) == Len(row)

\* Rows i of the parsed table and of the CSV agree on every cell of the
\* input outside the target columns.
OutsideUnchanged(i) ==
    \A k \in 0..(Width(parsedInput[i]) - 1) :
        k \notin TargetColumns =>
            Cell(responses[1].csv[i], k) = Cell(parsedInput[i], k)

\* C12 (as stated): every row of the CSV has as many cells as the input
\* row, rows of fewer than six cells included; cells outside columns 3, 4, 5
\* are unchanged; the header row and every row without a ResultMap entry
\* are emitted unchanged.
C12_SameLayout ==
    SentCsv =>
        /\ Len(responses[1].csv) = Len(parsedInput)
        /\ \A i \in 1..Len(parsedInput) :
            /\ Width(responses[1].csv[i]) = Width(parsedInput[i])
            /\ OutsideUnchanged(i)
            /\ (i = 1 \/ ~MapHas(allResults, i - 1))
                  => responses[1].csv[i] = UnparseRow(parsedInput[i])

\* C12 (amended): a row with a ResultMap entry is emitted with six cells
\* when the input row had fewer (the cells that were missing below column 3
\* are empty fields) and with the input's number of cells otherwise; every
\* cell of the input outside columns 3, 4, 5 is unchanged; the header row
\* and every row without a ResultMap entry are emitted unchanged.
C12_LayoutUpToSix ==
    SentCsv =>
        /\ Len(responses[1].csv) = Len(parsedInput)
        /\ \A i \in 1..Len(parsedInput) :
            /\ OutsideUnchanged(i)
            /\ (i = 1 \/ ~MapHas(allResults, i - 1))
                  => responses[1].csv[i] = UnparseRow(parsedInput[i])
            /\ (i > 1 /\ MapHas(allResults, i - 1)) =>
                  /\ Width(responses[1].csv[i])
                        = (IF Width(parsedInput[i]) < 6 THEN 6
                           ELSE Width(parsedInput[i]))
                  /\ \A k \in Width(parsedInput[i])..5 :
                        k \notin TargetColumns
                            => Cell(responses[1].csv[i], k) = EMPTY

\* C12 witness: the CSV holds a merged row of six cells whose input row had
\* two, and a row without a ResultMap entry.
C12_Witness ==
    /\ SentCsv
    /\ \E i \in 2..Len(parsedInput) :
        /\ MapHas(allResults, i - 1)
        /\ Width(parsedInput[i]) = 2
        /\ Width(responses[1].csv[i]) = 6
    /\ \E i \in 2..Len(parsedInput) : ~MapHas(allResults, i - 1)

(* -------------------------------- C13 --------------------------------- *)

\* The ResultMap written by the batches b, b + 1, ... one after the other in
\* batch order, from the results the calls gave.
RECURSIVE InBatchOrder(_, _)
InBatchOrder(m, b) ==
    IF b > Len(batches) THEN m
    ELSE InBatchOrder(WriteResults(m, batches[b], aiResults[b].aiData), b + 1)

\* The content of a ResultMap, whatever the order of insertion.
Entries(m) == { m[i] : i \in 1..Len(m) }

\* The items of the batches whose callback has written its results.
WrittenItems ==
    Flatten([b \in 1..Len(batches) |->
                IF b \in DOMAIN batchStatus /\ batchStatus[b] = "fulfilled"
                THEN batches[b] ELSE <<>>])

\* C13: for given responses of the calls, the ResultMap and the CSV are the
\* same whatever the order in which the batches finish (they are those of
\* the batches finishing in batch order); no two batches write the same
\* key; the rows of the CSV are in the order of the table.
C13_OrderIndependent ==
    /\ \A b1, b2 \in 1..Len(batches) :
          \A j1 \in 1..Len(batches[b1]), j2 \in 1..Len(batches[b2]) :
              batches[b1][j1].originalIndex = batches[b2][j2].originalIndex
                  => (b1 = b2 /\ j1 = j2)
    /\ pc = "join" => Len(allResults) = Len(WrittenItems)
    /\ (pc = "merge" \/ SentCsv) =>
          /\ Len(allResults) = Len(WrittenItems)
          /\ Entries(allResults) = Entries(InBatchOrder(<<>>, 1))
    /\ SentCsv =>
          /\ responses[1].csv
                = Unparse(MergeAll(parsedInput, InBatchOrder(<<>>, 1)).data)
          /\ Len(responses[1].csv) = Len(parsedInput)
          /\ \A i \in 1..Len(parsedInput) :
                /\ Cell(responses[1].csv[i], 0) = Cell(parsedInput[i], 0)
                /\ Cell(responses[1].csv[i], 1) = Cell(parsedInput[i], 1)

\* C13 witness: two batches got different results, the second wrote its
\* entries before the first, and the CSV was sent.
C13_Witness ==
    /\ SentCsv
    /\ Len(batches) = 2
    /\ aiResults[1].aiData # aiResults[2].aiData
    /\ allResults[1].key = batches[2][1].originalIndex
    /\ allResults # InBatchOrder(<<>>, 1)

(* -------------------------------- C14 --------------------------------- *)

\* The least whole number of groups of b that hold n.
CeilDiv(n, b) == CHOOSE k \in 0..n : k * b >= n /\ \A l \in 0..n : l * b >= n => k <= l

\* The batches have been formed.
Batched == pc \in {"dispatch", "join", "merge"} \/ SentCsv

\* C14: the n >= 1 selected items make exactly ceil(n / BATCH_SIZE) batches;
\* every batch but the last has BATCH_SIZE items, the last has between 1
\* and BATCH_SIZE, and no batch is empty.
C14_BatchCount ==
    Batched =>
        /\ Len(itemsToProcess) >= 1
        /\ Len(batches) = CeilDiv(Len(itemsToProcess), BATCH_SIZE)
        /\ \A b \in 1..Len(batches) :
            /\ Len(batches[b]) >= 1
            /\ Len(batches[b]) <= BATCH_SIZE
            /\ b < Len(batches) => Len(batches[b]) = BATCH_SIZE

\* C14 witness: a selection that does not divide by BATCH_SIZE gave a full
\* batch and a shorter last one.
C14_Witness ==
    /\ pc = "dispatch"
    /\ Len(itemsToProcess) = BATCH_SIZE + 1
    /\ Len(batches) = 2
    /\ Len(batches[1]) = BATCH_SIZE
    /\ Len(batches[2]) = 1

(* -------------------------------- C15 --------------------------------- *)

\* The records the response holds by the stated rule: the top-level array,
\* or the array that is the first value of a top-level object whatever its
\* first key, and no record for every other payload.
StatedRecords(o) ==
    IF ~o.parses THEN <<>>
    ELSE IF o.parsed.type = "array" THEN o.parsed.items
    ELSE IF /\ o.parsed.type = "object"
            /\ o.parsed.entries # <<>>
            /\ o.parsed.entries[1].value.type = "array"
         THEN o.parsed.entries[1].value.items
         ELSE <<>>

\* The records a are the records r, followed by 'AI Error' records when r
\* has fewer than n.
RecordsThenSentinels(a, r, n) ==
    /\ Len(a) = (IF Len(r) < n THEN n ELSE Len(r))
    /\ \A j \in 1..Len(a) :
          a[j] = (IF j <= Len(r) THEN r[j] ELSE SentinelRecord(AI_ERROR))

\* C15: a top-level array is taken as the records; a top-level object whose
\* first value is an array is unwrapped to that array whatever its first key
\* is, the empty string included; every other payload gives no record and
\* raises nothing.  What processBatchWithAI returns is these records, padded
\* when they are fewer than the batch.
C15_Normalization ==
    \A b \in 1..Len(batches) :
        (Settled(b) /\ ~callOutcome[b].threw) =>
            /\ ~aiResults[b].raised
            /\ RecordsThenSentinels(aiResults[b].aiData,
                                    StatedRecords(callOutcome[b]),
                                    Len(batches[b]))

(* -------------------------------- C16 --------------------------------- *)

\* The callback of batch b has written its results.
Fulfilled(b) == b \in DOMAIN batchStatus /\ batchStatus[b] = "fulfilled"

\* The service gave batch b more records than it has items.
LongResponse(b) ==
    /\ Settled(b)
    /\ Len(NormalizeResponse(callOutcome[b])) > Len(batches[b])

\* Record j (from 1) of the records a, a null element read as {}.
RecordAt(a, j) == IF a[j] = JsonNullElement THEN EmptyObject ELSE a[j]

\* C16: when the service gives a batch more records than it has items, item
\* j gets record j and the records past the batch are ignored: the keys of
\* the ResultMap are the items of the batches that have written, and the
\* entries of every batch that has written, before or after, are its own
\* records.
C16_ExcessIgnored ==
    /\ (\E b \in 1..Len(batches) : Fulfilled(b) /\ LongResponse(b)) =>
          MapKeys(allResults)
              = { WrittenItems[i].originalIndex : i \in 1..Len(WrittenItems) }
    /\ \A b \in 1..Len(batches) :
          (Fulfilled(b) /\ \E c \in 1..Len(batches) : Fulfilled(c) /\ LongResponse(c)) =>
              \A j \in 1..Len(batches[b]) :
                  /\ MapHas(allResults, batches[b][j].originalIndex)
                  /\ MapGet(allResults, batches[b][j].originalIndex)
                        = RecordAt(aiResults[b].aiData, j)

\* C16 witness: a batch of two items got three records and wrote two
\* entries, next to the entries of another batch.
C16_Witness ==
    /\ pc = "join"
    /\ Len(batches) = 2
    /\ Fulfilled(1) /\ Fulfilled(2)
    /\ Len(batches[1]) = 2
    /\ Len(NormalizeResponse(callOutcome[1])) = 3
    /\ Len(allResults) = 3

(* -------------------------------- C17 --------------------------------- *)

\* C17: the merge and the serialization start only after every batch has
\* written its results: while the handler merges, and when the CSV has been
\* sent, every callback has finished, every item has its entry, and the
\* merge has written nothing before that.
C17_JoinBeforeMerge ==
    /\ (pc = "merge" \/ SentCsv) =>
          /\ \A b \in 1..Len(batches) : Fulfilled(b)
          /\ completedBatchCount = Len(batches)
          /\ \A i \in 1..Len(itemsToProcess) :
                MapHas(allResults, itemsToProcess[i].originalIndex)
    /\ pc \in {"join", "merge"} =>
          /\ fullCsvData = parsedInput
          /\ mergeCount = 0
          /\ responses = <<>>

\* C17 witness: the handler is about to merge after two batches, the second
\* of which finished first.
C17_Witness ==
    /\ pc = "merge"
    /\ Len(batches) = 2
    /\ Len(allResults) = Len(itemsToProcess)
    /\ allResults[1].key = batches[2][1].originalIndex

(* -------------------------------- C18 --------------------------------- *)

\* Every entry of the ResultMap is kept, with its value, by the step.
EntriesKept ==
    \A k \in MapKeys(allResults) :
        /\ MapHas(allResults', k)
        /\ MapGet(allResults', k) = MapGet(allResults, k)

\* The call of some batch has not returned.
CallOutstanding == \E b \in DOMAIN batchStatus : batchStatus[b] = "awaiting"

\* The calls of all batches have returned or failed.
AllCallsSettled ==
    pc = "join" /\ \A b \in DOMAIN batchStatus : batchStatus[b] # "awaiting"

\* C18: whatever the other calls do (one of them may never return), a batch
\* whose call has returned or failed goes on to write all its entries, and
\* the entries stay; while a call is outstanding the handler stays at the
\* join and sends nothing; once every call has returned or failed the
\* request eventually gets its response.
C18_HungCall ==
    /\ \A b \in BatchIds :
          (b \in DOMAIN batchStatus /\ batchStatus[b] = "returned")
              ~> (/\ Fulfilled(b)
                  /\ \A j \in 1..Len(batches[b]) :
                        MapHas(allResults, batches[b][j].originalIndex))
    /\ [][EntriesKept]_vars
    /\ [](CallOutstanding => (pc = "join" /\ responses = <<>> /\ mergeCount = 0))
    /\ AllCallsSettled ~> SentCsv

\* C18 witness: the call of the first batch has not returned, the second
\* batch has written its entries, and the handler is held at the join.
C18_Witness ==
    /\ pc = "join"
    /\ Len(batches) = 2
    /\ batchStatus[1] = "awaiting"
    /\ Fulfilled(2)
    /\ MapKeys(allResults) = { batches[2][j].originalIndex : j \in 1..Len(batches[2]) }

(* -------------------------------- C19 --------------------------------- *)

\* The batches have been dispatched.
Dispatched == pc \in {"join", "merge"} \/ SentCsv

\* C19: the inference service is called once for every batch and never
\* again: from the dispatch on the number of calls issued is the number of
\* batches, whatever the calls gave (a throw, a malformed or a short
\* payload), and before the dispatch no call has been issued.
C19_OneCallPerBatch ==
    /\ Dispatched => apiCalls = Len(batches)
    /\ ~Dispatched => apiCalls = 0

\* C19 witness: the CSV was sent after two batches, one whose call threw
\* and one whose payload could not be parsed, and two calls were issued.
C19_Witness ==
    /\ SentCsv
    /\ Len(batches) = 2
    /\ callOutcome[1] = Throws
    /\ callOutcome[2] = Unparseable
    /\ apiCalls = 2

(* -------------------------------- C20 --------------------------------- *)

\* C20: the guard against a missing row is never taken: every key of the
\* ResultMap is the index of a data row of the table (1 <= key < number of
\* rows), and after the merge loop mergeCount is the size of the ResultMap.
C20_GuardNeverTaken ==
    /\ \A k \in MapKeys(allResults) :
          /\ 1 <= k
          /\ k < Len(fullCsvData)
          /\ RowExists(fullCsvData, k)
    /\ SentCsv =>
          /\ mergeCount = Len(allResults)
          /\ mergeCount = Len(itemsToProcess)

\* C20 witness: the CSV was sent after a merge of an entry for the last row
\* of the table and of an entry for its first data row.
C20_Witness ==
    /\ SentCsv
    /\ Len(fullCsvData) = MaxRows
    /\ MapHas(allResults, Len(fullCsvData) - 1)
    /\ MapHas(allResults, 1)
    /\ mergeCount = Len(allResults)

(* -------------------------------- C21 --------------------------------- *)

\* The batches whose callback has finished.
FinishedBatches == { b \in DOMAIN batchStatus : batchStatus[b] = "fulfilled" }

\* C21: completedBatchCount counts every finished batch once, in every
\* order of completion, and is the number of batches once the join is over;
\* the processedCount reported by a finishing batch is never more than
\* totalItemsToProcess, is completedBatchCount * BATCH_SIZE and below the
\* total while a batch is still to finish, and is the total exactly when the
\* last batch to finish has finished.
C21_ProgressCount ==
    /\ completedBatchCount = Cardinality(FinishedBatches)
    /\ (pc = "merge" \/ SentCsv) => completedBatchCount = Len(batches)
    /\ processedCount <= totalItemsToProcess
    /\ completedBatchCount >= 1 =>
          /\ (processedCount = totalItemsToProcess)
                <=> (completedBatchCount = Len(batches))
          /\ completedBatchCount < Len(batches)
                => processedCount = completedBatchCount * BATCH_SIZE

\* C21 witness: of two batches the shorter second one finished first and
\* reported BATCH_SIZE items, then the first finished and reported the
\* total.
C21_Witness ==
    /\ pc = "join"
    /\ Len(batches) = 2
    /\ Len(batches[2]) < BATCH_SIZE
    /\ allResults # <<>>
    /\ allResults[1].key = batches[2][1].originalIndex
    /\ completedBatchCount = 2
    /\ processedCount = totalItemsToProcess
    /\ totalItemsToProcess = BATCH_SIZE + 1

=============================================================================
